---- MODULE Spec2Model ----
(***************************************************************************)
(* A model of src/src/Form.ts: the Form class of vform.  A form is a      *)
(* JavaScript object whose own properties are the bound fields plus the   *)
(* four control properties busy, successful, errors and originalData.     *)
(*                                                                         *)
(* JavaScript values are modelled as records [t, v]:                      *)
(*   t = "u"  undefined            t = "n"  the number v                  *)
(*   t = "b"  a boolean (v = 1)    t = "o"  a reference to the nested     *)
(*   t = "x"  an opaque object              object stored at heap[v]      *)
(* A nested object is {x: c}: heap[address] is the value c of its one     *)
(* property.  Two values with the same address are the same object, so    *)
(* an in-place change made through one is seen through the other.         *)
(* t = "O" is the structural ("deep") view of a nested object: its        *)
(* content, without its identity.                                          *)
(***************************************************************************)
EXTENDS Integers, FiniteSets, Sequences, TLC

\* Bounds of the model.
MaxAddr == 3
MaxInFlight == 2

Addr == 1..MaxAddr

U == [t |-> "u", v |-> 0]
N(n) == [t |-> "n", v |-> n]
B(b) == [t |-> "b", v |-> IF b THEN 1 ELSE 0]
O(a) == [t |-> "o", v |-> a]
Obj(c) == [t |-> "O", v |-> c]
Opaque == [t |-> "x", v |-> 0]

Empty == [k \in {} |-> U]
NoMap == [on |-> FALSE, m |-> Empty]
Some(m) == [on |-> TRUE, m |-> m]

Restrict(f, S) == [k \in (DOMAIN f) \cap S |-> f[k]]

\* static ignore = ['busy', 'successful', 'errors', 'originalData']
ignore == {"busy", "successful", "errors", "originalData"}

\* The names the model binds as fields, and the arguments it passes to
\* update and fill: objects over the keys a, b and the reserved name busy.
FieldKeys == {"a", "b"}
ArgKeys == FieldKeys \cup {"busy"}
ArgVals(k) ==
  CASE k = "a" -> {N(0), Obj(0)}
    [] k = "b" -> {N(0)}
    [] OTHER -> {B(TRUE)}
AllArgVals == UNION {ArgVals(k) : k \in ArgKeys}
DataArgs ==
  UNION {{D \in [S -> AllArgVals] : \A k \in S : D[k] \in ArgVals(k)} : S \in SUBSET ArgKeys}
Contents == {0, 1}

VARIABLES
  fields,        \* the own properties of the form other than the four of ignore
  originalData,  \* this.originalData
  busy,          \* this.busy
  successful,    \* this.successful
  errors,        \* this.errors, the messages of the Errors object
  heap,          \* the nested objects reachable from the form and its callers
  ret,           \* the mapping the last data() call returned, held by the caller
  inflight,      \* the requests the transport has not completed yet
  sent,          \* the last request() call on the transport, and the config given for it
  config,        \* the config object the caller passed to the last submit
  done,          \* how the last promise settled
  body,          \* the response body handed to extractErrors (pure-function check)
  extracted,     \* what extractErrors returned for it
  lastD,         \* history: the argument of the last update, as it was then
  lastOp         \* history: the last operation that acted on the form

vars == <<fields, originalData, busy, successful, errors, heap, ret, inflight,
          sent, config, done, body, extracted, lastD, lastOp>>

----------------------------------------------------------------------------
(* The heap: addresses, allocation, structural views. *)

IsRef(x) == x.t = "o"
AddrsOf(M) == {M[k].v : k \in {j \in DOMAIN M : IsRef(M[j])}}

\* The structural view of a value and of a mapping under heap h.
DeepVal(x, h) == IF IsRef(x) THEN Obj(h[x.v]) ELSE x
Deep(M, h) == [k \in DOMAIN M |-> DeepVal(M[k], h)]

KeyIdx(k) == CASE k = "a" -> 1 [] k = "b" -> 2 [] k = "q" -> 3 [] OTHER -> 4
ObjKeys(M) == {k \in DOMAIN M : M[k].t = "O"}
NObj(M) == Cardinality(ObjKeys(M))
Rank(M, k) == Cardinality({j \in ObjKeys(M) : KeyIdx(j) <= KeyIdx(k)})
NthFree(used, n) ==
  CHOOSE x \in Addr \ used : Cardinality({y \in Addr \ used : y < x}) = n - 1
CanAlloc(used, n) == Cardinality(Addr \ used) >= n

\* New objects for the structural mapping M: the object under key k is stored
\* at the (off + rank of k)-th address not in used.
NewRefs(M, used, off) ==
  [k \in DOMAIN M |->
     IF M[k].t = "O" THEN O(NthFree(used, off + Rank(M, k))) ELSE M[k]]
Store(h, M, used, off) ==
  LET new == {NthFree(used, off + Rank(M, k)) : k \in ObjKeys(M)}
  IN  [a \in (DOMAIN h) \cup new |->
         IF a \in new
           THEN M[CHOOSE k \in ObjKeys(M) : NthFree(used, off + Rank(M, k)) = a].v
           ELSE h[a]]

\* The addresses other holders than the form keep alive.
External == AddrsOf(ret.m) \cup AddrsOf(sent.params.m) \cup AddrsOf(sent.data.m)
              \cup AddrsOf(config.params.m) \cup AddrsOf(config.data.m)

NoSent == [on |-> FALSE, method |-> "", params |-> NoMap, data |-> NoMap,
           given |-> [params |-> NoMap, data |-> NoMap]]
NoConfig == [on |-> FALSE, params |-> NoMap, data |-> NoMap]

\* What stays allocated after a step: the objects the form, its baseline and
\* the callers' mappings still refer to.
Collect(h) ==
  Restrict(h, AddrsOf(fields') \cup AddrsOf(originalData') \cup AddrsOf(ret'.m)
                \cup AddrsOf(sent'.params.m) \cup AddrsOf(sent'.data.m)
                \cup AddrsOf(config'.params.m) \cup AddrsOf(config'.data.m))

\* deepCopy(value) of ./util: an independent structural copy.  The copy of the
\* mapping M is made of new objects with the contents M's objects have in h.
deepCopy(M, h, used, off) == NewRefs(Deep(M, h), used, off)
deepCopyHeap(M, h, used, off) == Store(h, Deep(M, h), used, off)

----------------------------------------------------------------------------
(* The field container. *)

\* Object.keys(this): the four class fields are own properties of every form.
OwnKeys == (DOMAIN fields) \cup ignore

\* this[key]
Get(k) ==
  CASE k = "busy" -> B(busy)
    [] k = "successful" -> B(successful)
    [] k \in {"errors", "originalData"} -> Opaque
    [] OTHER -> fields[k]

\* keys() without the filter of line 74.
keysUnfiltered == OwnKeys

keys == {key \in OwnKeys : key \notin ignore}

data == [key \in keys |-> Get(key)]

\* Object.assign(this, data) on one of the two flags.
assignFlag(cur, D, name) == IF name \in DOMAIN D THEN D[name].v = 1 ELSE cur

\* update(data), with data the caller's object literal D (new objects).
update(D) ==
  LET used == AddrsOf(Restrict(fields, (DOMAIN fields) \ DOMAIN D))
                \cup AddrsOf(Restrict(originalData, (DOMAIN originalData) \ DOMAIN D))
                \cup External
      arg == NewRefs(D, used, 0)
      h1 == Store(heap, D, used, 0)
  IN  /\ CanAlloc(used, 2 * NObj(D))
      /\ originalData' = deepCopy(arg, h1, used, NObj(D)) @@ originalData
      /\ fields' = Restrict(arg, (DOMAIN D) \ ignore) @@ fields
      /\ busy' = assignFlag(busy, D, "busy")
      /\ successful' = assignFlag(successful, D, "successful")
      /\ UNCHANGED <<errors, sent, config>>
      /\ heap' = Collect(deepCopyHeap(arg, h1, used, NObj(D)))

\* fill(data) going through the keys of data, not through keys().
fillDataKeys(D) ==
  LET used == AddrsOf(originalData) \cup External
      arg == NewRefs(D, used, 0)
  IN  /\ CanAlloc(used, NObj(D))
      /\ fields' = Restrict(arg, (DOMAIN D) \ ignore) @@ fields
      /\ UNCHANGED <<originalData, busy, successful, errors, sent, config>>
      /\ heap' = Collect(Store(heap, D, used, 0))

\* fill(data)
fill(D) ==
  LET used == AddrsOf(originalData) \cup External
      arg == NewRefs(D, used, 0)
  IN  /\ CanAlloc(used, NObj(D))
      /\ fields' = [key \in keys |-> IF key \in DOMAIN D THEN arg[key] ELSE U]
      /\ UNCHANGED <<originalData, busy, successful, errors, sent, config>>
      /\ heap' = Collect(Store(heap, D, used, 0))

\* reset() without the deepCopy of line 109: the fields become the baseline's
\* own objects.
resetWithoutCopy ==
  /\ fields' = [key \in {k \in OwnKeys : k \notin ignore} |->
                  IF key \in DOMAIN originalData THEN originalData[key] ELSE U]
  /\ UNCHANGED <<originalData, busy, successful, errors, sent, config>>
  /\ heap' = Collect(heap)

\* reset() going through the keys of the baseline, not through Object.keys(this).
resetBaselineKeys ==
  LET used == AddrsOf(originalData) \cup External
      base == Restrict(originalData, (DOMAIN originalData) \ ignore)
  IN  /\ CanAlloc(used, Cardinality(AddrsOf(base)))
      /\ fields' = deepCopy(base, heap, used, 0) @@ fields
      /\ UNCHANGED <<originalData, busy, successful, errors, sent, config>>
      /\ heap' = Collect(deepCopyHeap(base, heap, used, 0))

\* reset()
reset ==
  LET used == AddrsOf(originalData) \cup External
      base == [key \in {k \in OwnKeys : k \notin ignore} |->
                 IF key \in DOMAIN originalData THEN originalData[key] ELSE U]
  IN  /\ CanAlloc(used, Cardinality(AddrsOf(base)))
      /\ fields' = deepCopy(base, heap, used, 0)
      /\ UNCHANGED <<originalData, busy, successful, errors, sent, config>>
      /\ heap' = Collect(deepCopyHeap(base, heap, used, 0))

\* this[k] = v, by the code that owns the form: a number, or a new object.
assign(k, v) ==
  /\ fields' = (k :> v) @@ fields
  /\ UNCHANGED <<originalData, busy, successful, errors, sent, config>>
  /\ heap' = Collect(heap)

assignObject(k, c) ==
  LET used == AddrsOf(Restrict(fields, (DOMAIN fields) \ {k}))
                \cup AddrsOf(originalData) \cup External
      new == (k :> Obj(c))
  IN  /\ CanAlloc(used, 1)
      /\ fields' = NewRefs(new, used, 0) @@ fields
      /\ UNCHANGED <<originalData, busy, successful, errors, sent, config>>
      /\ heap' = Collect(Store(heap, new, used, 0))

\* M[k].x = c, an in-place change of the nested object the mapping M holds.
mutateNested(M, k, c) ==
  /\ k \in DOMAIN M
  /\ IsRef(M[k])
  /\ heap[M[k].v] # c
  /\ heap' = Collect([heap EXCEPT ![M[k].v] = c])

----------------------------------------------------------------------------
(* Response bodies and the Errors object.                                  *)
(* A JSON value is a record [t, s, m]: t = "null" (null or undefined),     *)
(* "str" (the string s[1]), "num" (the number written s[1]), "arr" (the    *)
(* array of strings s), "obj" (the object with the properties m).          *)

NoProps == [k \in {} |-> 0]
JNull == [t |-> "null", s |-> <<>>, m |-> NoProps]
JStr(x) == [t |-> "str", s |-> <<x>>, m |-> NoProps]
JNum(x) == [t |-> "num", s |-> <<x>>, m |-> NoProps]
JArr(xs) == [t |-> "arr", s |-> xs, m |-> NoProps]
JObj(props) == [t |-> "obj", s |-> <<>>, m |-> props]

\* static errorMessage
errorMessage == "Something went wrong. Please try again."

\* JavaScript's truthiness and typeof x === 'object'.
Truthy(j) ==
  CASE j.t = "null" -> FALSE
    [] j.t = "str" -> j.s[1] # ""
    [] j.t = "num" -> j.s[1] # "0"
    [] OTHER -> TRUE
TypeofObject(j) == j.t \in {"null", "arr", "obj"}

\* j.name: undefined when j has no such property.
Prop(j, name) == IF name \in DOMAIN j.m THEN j.m[name] ELSE JNull

\* { ...j }: the own enumerable properties of j.
Spread(j) ==
  CASE j.t = "obj" -> j.m
    [] j.t = "arr" -> [i \in {ToString(n - 1) : n \in DOMAIN j.s} |->
                         JStr(j.s[CHOOSE n \in DOMAIN j.s : ToString(n - 1) = i])]
    [] OTHER -> NoProps

\* extractErrors with the tests of lines 193 and 197 in the other order.
extractErrorsMessageFirst(responseData) ==
  IF ~Truthy(responseData) \/ ~TypeofObject(responseData)
    THEN ("error" :> JStr(errorMessage))
    ELSE IF Truthy(Prop(responseData, "message"))
      THEN ("error" :> Prop(responseData, "message"))
      ELSE IF Truthy(Prop(responseData, "errors"))
        THEN Spread(Prop(responseData, "errors"))
        ELSE Spread(responseData)

\* extractErrors(response), with response.data = responseData.
extractErrors(responseData) ==
  IF ~Truthy(responseData) \/ ~TypeofObject(responseData)
    THEN ("error" :> JStr(errorMessage))
    ELSE IF Truthy(Prop(responseData, "errors"))
      THEN Spread(Prop(responseData, "errors"))
      ELSE IF Truthy(Prop(responseData, "message"))
        THEN ("error" :> Prop(responseData, "message"))
        ELSE Spread(responseData)

\* The Errors object of ./Errors, after the specification's section 4.2.
errorsSet(messages) == messages
errorsClear == NoProps
errorsClearField(E, field) == Restrict(E, (DOMAIN E) \ {field})
has(field) == field \in DOMAIN errors
first(field) ==
  IF ~has(field) THEN ""
  ELSE IF errors[field].s = <<>> THEN "" ELSE errors[field].s[1]

\* The response bodies the transport answers with.
NameRequired == ("name" :> JArr(<<"required">>))
TwoErrors == ("name" :> JStr("required")) @@ ("email" :> JArr(<<"taken", "invalid">>))
ErrorsVals == {JNull, JStr(""), JObj(NoProps), JObj(NameRequired), JObj(TwoErrors),
               JArr(<<"bad">>)}
MessageVals == {JNull, JStr(""), JStr("Not authorized")}
FooVals == {JNum("0"), JNum("1")}
BodyProps ==
  {e @@ msg @@ f :
     e \in {NoProps} \cup {("errors" :> x) : x \in ErrorsVals},
     msg \in {NoProps} \cup {("message" :> x) : x \in MessageVals},
     f \in {NoProps} \cup {("foo" :> x) : x \in FooVals}}
Bodies ==
  {JNull, JStr(""), JStr("plain text"), JNum("0"), JNum("500"), JArr(<<>>), JArr(<<"a", "b">>)}
    \cup {JObj(p) : p \in BodyProps}

----------------------------------------------------------------------------
(* Submission. *)

\* startProcessing() without the errors.clear() of line 81.
startProcessingKeepsErrors ==
  /\ UNCHANGED errors
  /\ busy' = TRUE
  /\ successful' = FALSE

\* startProcessing() without the busy = true of line 82.
startProcessingNotBusy ==
  /\ errors' = errorsClear
  /\ UNCHANGED busy
  /\ successful' = FALSE

\* startProcessing() without the successful = false of line 83.
startProcessingKeepsSuccessful ==
  /\ errors' = errorsClear
  /\ busy' = TRUE
  /\ UNCHANGED successful

\* startProcessing()
startProcessing ==
  /\ errors' = errorsClear
  /\ busy' = TRUE
  /\ successful' = FALSE

\* finishProcessing() without the successful = true of line 91.
finishProcessingNotSuccessful ==
  /\ busy' = FALSE
  /\ UNCHANGED successful

\* finishProcessing() without the busy = false of line 90.
finishProcessingKeepsBusy ==
  /\ UNCHANGED busy
  /\ successful' = TRUE

\* finishProcessing()
finishProcessing ==
  /\ busy' = FALSE
  /\ successful' = TRUE

\* clear()
clear ==
  /\ errors' = errorsClear
  /\ successful' = FALSE

\* handleErrors(error) without the busy = false of line 178.
handleErrorsKeepsBusy(error) ==
  /\ UNCHANGED busy
  /\ IF error.hasResponse
       THEN errors' = errorsSet(extractErrors(error.body))
       ELSE UNCHANGED errors

\* handleErrors(error) without the test of error.response of line 180.
handleErrorsAlwaysSets(error) ==
  /\ busy' = FALSE
  /\ errors' = errorsSet(extractErrors(error.body))

\* handleErrors(error)
handleErrors(error) ==
  /\ busy' = FALSE
  /\ IF error.hasResponse
       THEN errors' = errorsSet(extractErrors(error.body))
       ELSE UNCHANGED errors

\* onKeydown(event) with errors.clear() in place of errors.clear(target.name).
onKeydownClearsAll(name) ==
  IF name # "" THEN errors' = errorsClear ELSE UNCHANGED errors

\* onKeydown(event), with name = event.target.name ("" when it has none).
onKeydown(name) ==
  IF name # "" THEN errors' = errorsClearField(errors, name) ELSE UNCHANGED errors

\* The method compared as it is written, without toLowerCase().
toLowerCaseMissing(method) == method

\* method.toLowerCase()
toLowerCase(method) ==
  CASE method \in {"GET", "Get"} -> "get"
    [] method = "POST" -> "post"
    [] OTHER -> method

\* x || {}
OrEmpty(slot) == IF slot.on THEN slot.m ELSE Empty

\* { ...under, ...over }: the properties of over win.
spread2(under, over) == over @@ under

\* Lines 154-158 of submit: the config object after the payload is stored.
withPayload(method, cfg) ==
  IF toLowerCase(method) = "get"
    THEN [cfg EXCEPT !.params = Some(spread2(data, OrEmpty(cfg.params)))]
    ELSE [cfg EXCEPT !.data = Some(spread2(data, OrEmpty(cfg.data)))]

\* What the transport delivers: a response, or an error with or without one.
Response(name) == [ok |-> TRUE, name |-> name, hasResponse |-> TRUE, body |-> JNull]
ErrorWith(b) == [ok |-> FALSE, name |-> "error", hasResponse |-> TRUE, body |-> b]
NetworkError == [ok |-> FALSE, name |-> "network", hasResponse |-> FALSE, body |-> JNull]

\* The requests in flight are numbered by the first number not in use.
Slots == 1..MaxInFlight
InUse == {r.id : r \in inflight}
FreeSlot == CHOOSE i \in Slots \ InUse : \A j \in Slots \ InUse : i <= j

\* submit(method, url, config) up to the request() call on the transport.
submit(method, cfg) ==
  /\ Cardinality(inflight) < MaxInFlight
  /\ startProcessing
  /\ config' = [on |-> TRUE, params |-> withPayload(method, cfg).params,
                data |-> withPayload(method, cfg).data]
  /\ sent' = [on |-> TRUE, method |-> method, params |-> config'.params,
              data |-> config'.data,
              given |-> [params |-> cfg.params, data |-> cfg.data]]
  /\ inflight' = {[r EXCEPT !.overlapped = TRUE] : r \in inflight}
       \cup {[id |-> FreeSlot, overlapped |-> inflight # {}]}

\* The .then callback with an errors.clear() that the code does not have.
onFulfilledClearsErrors(r, response) ==
  /\ finishProcessing
  /\ errors' = errorsClear
  /\ done' = [on |-> TRUE, outcome |-> "resolved", value |-> response,
              arrived |-> response, overlapped |-> r.overlapped]
  /\ inflight' = inflight \ {r}

\* The .then callback of submit: the transport resolved request r with response.
onFulfilled(r, response) ==
  /\ finishProcessing
  /\ UNCHANGED errors
  /\ done' = [on |-> TRUE, outcome |-> "resolved", value |-> response,
              arrived |-> response, overlapped |-> r.overlapped]
  /\ inflight' = inflight \ {r}

\* The .catch callback of submit: the transport rejected request r with error.
onRejected(r, error) ==
  /\ handleErrors(error)
  /\ UNCHANGED successful
  /\ done' = [on |-> TRUE, outcome |-> "rejected", value |-> error,
              arrived |-> error, overlapped |-> r.overlapped]
  /\ inflight' = inflight \ {r}

\* static routes, as the application may set them: a name with a template
\* that decodes, and a name with a template that ends in a lone "%".  A
\* template is the sequence of its characters.
routes ==
  ("users.index" :> <<"/", "u">>) @@ ("users.broken" :> <<"/", "u", "%">>)

\* decodeURI(s) throws a URIError when a "%" of s is not followed by two
\* hexadecimal digits.
HexDigits == {"0", "1", "2", "a", "f", "A", "F"}
decodeURIThrows(s) ==
  \E i \in 1..Len(s) :
    /\ s[i] = "%"
    /\ ~(i + 2 <= Len(s) /\ s[i + 1] \in HexDigits /\ s[i + 2] \in HexDigits)

\* route(name) throws when name is a key of routes whose template does not
\* decode (lines 210-212); else it returns a url.
routeThrows(name) == name \in DOMAIN routes /\ decodeURIThrows(routes[name])

\* What the promise of submit rejects with when route(url) throws.
URIError == [ok |-> FALSE, name |-> "URIError", hasResponse |-> FALSE, body |-> JNull]

\* submit(method, url, config) when route(url) throws inside the executor of
\* the promise: lines 152-158 have run, request() is not called, the promise
\* is rejected with the exception, and neither callback will ever run.
submitRouteThrows(method, cfg) ==
  /\ startProcessing
  /\ config' = [on |-> TRUE, params |-> withPayload(method, cfg).params,
                data |-> withPayload(method, cfg).data]
  /\ UNCHANGED <<sent, inflight>>
  /\ done' = [on |-> TRUE, outcome |-> "rejected", value |-> URIError,
              arrived |-> URIError, overlapped |-> FALSE]

----------------------------------------------------------------------------
(* The state after construction, and the steps of the field container. *)

NoDone == [on |-> FALSE, outcome |-> "", value |-> NetworkError,
           arrived |-> NetworkError, overlapped |-> FALSE]

\* new Form(D): the class field initialisers, then update(D) (lines 7-34).
Constructed(D) ==
  LET arg == NewRefs(D, {}, 0)
      h1 == Store(Empty, D, {}, 0)
  IN  /\ originalData = deepCopy(arg, h1, {}, NObj(D)) @@ Empty
      /\ fields = Restrict(arg, (DOMAIN D) \ ignore) @@ Empty
      /\ busy = assignFlag(FALSE, D, "busy")
      /\ successful = assignFlag(FALSE, D, "successful")
      /\ errors = errorsClear
      /\ heap = deepCopyHeap(arg, h1, {}, NObj(D))
      /\ ret = NoMap
      /\ inflight = {}
      /\ sent = NoSent
      /\ config = NoConfig
      /\ done = NoDone
      /\ body = JNull
      /\ extracted = [on |-> FALSE, m |-> NoProps]
      /\ lastD = D
      /\ lastOp = "new"

Init == \E D \in DataArgs : Constructed(D)

Idle == UNCHANGED <<inflight, done, body, extracted>>

\* The caller holds the mapping data() returned only until its next call on
\* the form.
Dropped == ret' = NoMap

Update(D) == Dropped /\ update(D) /\ lastD' = D /\ lastOp' = "update" /\ Idle

Fill(D) == Dropped /\ fill(D) /\ lastOp' = "fill" /\ UNCHANGED lastD /\ Idle

Reset == Dropped /\ reset /\ lastOp' = "reset" /\ UNCHANGED lastD /\ Idle

Assign(k, v) ==
  Dropped /\ assign(k, v) /\ lastOp' = "assign" /\ UNCHANGED lastD /\ Idle

AssignObject(k, c) ==
  Dropped /\ assignObject(k, c) /\ lastOp' = "assign" /\ UNCHANGED lastD /\ Idle

\* form[k].x = c
MutateField(k, c) ==
  /\ Dropped
  /\ UNCHANGED <<fields, originalData, busy, successful, errors, sent, config, lastD>>
  /\ mutateNested(fields, k, c)
  /\ lastOp' = "mutate"
  /\ Idle

\* const d = form.data(): a read, which leaves the form as it is.
Data ==
  /\ ret' = Some(data)
  /\ UNCHANGED <<fields, originalData, busy, successful, errors, sent, config, lastD, lastOp>>
  /\ heap' = Collect(heap)
  /\ Idle

\* d[k] = v, on the mapping data() returned.
MutateRetTop(k, v) ==
  /\ ret.on
  /\ ret' = Some((k :> v) @@ ret.m)
  /\ ret' # ret
  /\ lastOp' = "mutret"
  /\ UNCHANGED <<fields, originalData, busy, successful, errors, sent, config, lastD>>
  /\ heap' = Collect(heap)
  /\ Idle

\* d[k].x = c, on a nested object of the mapping data() returned.
MutateRetNested(k, c) ==
  /\ ret.on
  /\ UNCHANGED <<fields, originalData, busy, successful, errors, ret, sent, config, lastD>>
  /\ mutateNested(ret.m, k, c)
  /\ lastOp' = "mutret"
  /\ Idle

NextData ==
  \/ \E D \in DataArgs : Update(D)
  \/ \E D \in DataArgs : Fill(D)
  \/ Reset
  \/ \E k \in FieldKeys, v \in {N(0), N(1)} : Assign(k, v)
  \/ \E c \in Contents : AssignObject("a", c)
  \/ \E k \in FieldKeys, c \in Contents : MutateField(k, c)
  \/ Data
  \/ \E k \in FieldKeys : MutateRetTop(k, N(1))
  \/ \E k \in FieldKeys, c \in Contents : MutateRetNested(k, c)

Spec == Init /\ [][NextData]_vars

\* The wholesale operations alone: update, fill and reset after construction.
NextUpdate ==
  \/ \E D \in DataArgs : Update(D)
  \/ \E D \in DataArgs : Fill(D)
  \/ Reset

SpecUpdate == Init /\ [][NextUpdate]_vars

----------------------------------------------------------------------------
(* The steps of a submission. *)

Methods == {"get", "GET", "Get", "post", "POST", "put", "patch", "delete"}
ConfigMaps == {NoMap, Some(("a" :> N(1)) @@ ("q" :> N(1)))}
ConfigArgs == {[params |-> p, data |-> d] : p \in ConfigMaps, d \in ConfigMaps}
ResponseNames == {"response 200", "response 204"}
FailBodies ==
  {JNull, JStr("plain text"), JObj(("errors" :> JObj(NameRequired))),
   JObj(("errors" :> JObj(TwoErrors)) @@ ("message" :> JStr("Not authorized"))),
   JObj(("message" :> JStr("Not authorized"))), JObj(("foo" :> JNum("1")))}
TransportErrors == {NetworkError} \cup {ErrorWith(b) : b \in FailBodies}
TargetNames == {"", "name", "email"}

FormIdle == UNCHANGED <<fields, originalData, lastD, body, extracted>>

\* form.submit(method, url, cfg) with a new config object cfg.
Submit(method, cfg) ==
  /\ Dropped
  /\ submit(method, cfg)
  /\ done' = NoDone
  /\ lastOp' = "submit"
  /\ FormIdle
  /\ heap' = Collect(heap)

\* form.submit(method, url, cfg) with the config object of the last submit.
SubmitAgain(method) ==
  /\ config.on
  /\ Submit(method, [params |-> config.params, data |-> config.data])

TransportResolves(r, response) ==
  /\ onFulfilled(r, response)
  /\ lastOp' = "resolved"
  /\ UNCHANGED <<heap, ret, sent, config>>
  /\ FormIdle

TransportRejects(r, error) ==
  /\ onRejected(r, error)
  /\ lastOp' = "rejected"
  /\ UNCHANGED <<heap, ret, sent, config>>
  /\ FormIdle

Clear ==
  /\ clear
  /\ done' = NoDone
  /\ lastOp' = "clear"
  /\ UNCHANGED <<busy, heap, ret, sent, config, inflight>>
  /\ FormIdle

Keydown(name) ==
  /\ onKeydown(name)
  /\ done' = NoDone
  /\ lastOp' = "keydown"
  /\ UNCHANGED <<busy, successful, heap, ret, sent, config, inflight>>
  /\ FormIdle

StartProcessing ==
  /\ startProcessing
  /\ done' = NoDone
  /\ lastOp' = "start"
  /\ UNCHANGED <<heap, ret, sent, config, inflight>>
  /\ FormIdle

FinishProcessing ==
  /\ finishProcessing
  /\ done' = NoDone
  /\ lastOp' = "finish"
  /\ UNCHANGED <<errors, heap, ret, sent, config, inflight>>
  /\ FormIdle

\* The submission lifecycle: flags, errors and promises, for a form whose
\* caller passes no config.
NoConfigArg == [params |-> NoMap, data |-> NoMap]
NextSubmit ==
  \/ \E m \in {"post", "GET"} : Submit(m, NoConfigArg)
  \/ \E r \in inflight, n \in ResponseNames : TransportResolves(r, Response(n))
  \/ \E r \in inflight, e \in TransportErrors : TransportRejects(r, e)
  \/ Clear
  \/ \E n \in TargetNames : Keydown(n)

SpecSubmit == Init /\ [][NextSubmit]_vars

\* The lifecycle with the caller's own calls of startProcessing and
\* finishProcessing.
NextFlags ==
  \/ NextSubmit
  \/ StartProcessing
  \/ FinishProcessing

SpecFlags == Init /\ [][NextFlags]_vars

\* The payload of a submission: every method, the caller's config objects,
\* and assignments to the fields between two submissions.
NextPayload ==
  \/ \E m \in Methods, c \in ConfigArgs : Submit(m, c)
  \/ Assign("a", N(1))
  \/ \E r \in inflight : TransportResolves(r, Response("response 200"))

SpecPayload == Init /\ [][NextPayload]_vars

\* The lifecycle of a form built from data without reserved names, with the
\* caller's own calls of startProcessing, finishProcessing, fill and reset.
PlainArgs == {D \in DataArgs : (DOMAIN D) \cap ignore = {}}
InitPlain == \E D \in PlainArgs : Constructed(D)
FillArgs == {Empty, ("a" :> N(0)) @@ ("busy" :> B(TRUE))}
NextLifecycle ==
  \/ NextFlags
  \/ \E D \in FillArgs : Fill(D)
  \/ Reset

SpecLifecycle == InitPlain /\ [][NextLifecycle]_vars

\* Submissions whose caller passes an empty config object, a new one or the
\* one it passed to the last submit, and assigns to the fields in between.
NextResubmit ==
  \/ \E m \in {"post", "get"} : Submit(m, NoConfigArg)
  \/ \E m \in {"post", "get"} : SubmitAgain(m)
  \/ \E k \in FieldKeys : Assign(k, N(1))
  \/ \E r \in inflight : TransportResolves(r, Response("response 200"))

SpecResubmit == Init /\ [][NextResubmit]_vars

\* form.submit(method, url, cfg) with a new config object: url is a plain
\* url or the name of a route.
Urls == {"/users", "users.index", "users.broken"}

SubmitTo(method, url, cfg) ==
  IF routeThrows(url)
    THEN /\ Dropped
         /\ submitRouteThrows(method, cfg)
         /\ lastOp' = "threw"
         /\ FormIdle
         /\ heap' = Collect(heap)
    ELSE Submit(method, cfg)

\* The transport completes the request numbered i.
Completes(i) ==
  \E r \in inflight :
    /\ r.id = i
    /\ \/ TransportResolves(r, Response("response 200"))
       \/ \E e \in {NetworkError, ErrorWith(JObj(("errors" :> JObj(NameRequired))))} :
            TransportRejects(r, e)

\* Submissions to any url, with a transport that completes every request it
\* was given.
NextSettle ==
  \/ \E url \in Urls : SubmitTo("post", url, NoConfigArg)
  \/ \E i \in Slots : Completes(i)
  \/ Clear

SpecSettle ==
  Init /\ [][NextSettle]_vars /\ \A i \in Slots : WF_vars(Completes(i))

----------------------------------------------------------------------------
(* extractErrors as a function of the response body. *)

NotExtracted == [on |-> FALSE, m |-> NoProps]

Receive(b) ==
  /\ body' = b
  /\ extracted' = NotExtracted
  /\ UNCHANGED <<fields, originalData, busy, successful, errors, heap, ret, inflight,
                 sent, config, done, lastD, lastOp>>

Extract ==
  /\ ~extracted.on
  /\ extracted' = Some(extractErrors(body))
  /\ UNCHANGED <<fields, originalData, busy, successful, errors, heap, ret, inflight,
                 sent, config, done, body, lastD, lastOp>>

InitExtract == Constructed(Empty)

NextExtract ==
  \/ \E b \in Bodies : Receive(b)
  \/ Extract

SpecExtract == InitExtract /\ [][NextExtract]_vars

----------------------------------------------------------------------------
(* The properties. *)

Settled(outcome) == done.on /\ done.outcome = outcome /\ done.value = done.arrived

\* C1: when the transport rejects a submission that no other submission
\* overlapped with an error carrying a response, then right after the promise
\* has rejected busy and successful are false, the errors are the mapping
\* extracted from the response body, and the promise rejected with the
\* transport's own error.  For the body {errors: {name: ["required"]}},
\* has("name") holds and first("name") is "required".
C1_FailurePath ==
  (lastOp = "rejected" /\ done.arrived.hasResponse /\ ~done.overlapped) =>
    /\ busy = FALSE
    /\ successful = FALSE
    /\ errors = extractErrors(done.arrived.body)
    /\ Settled("rejected")
    /\ done.arrived.body = JObj(("errors" :> JObj(NameRequired))) =>
         has("name") /\ first("name") = "required"

C1_Witness ==
  /\ lastOp = "rejected"
  /\ ~done.overlapped
  /\ done.arrived = ErrorWith(JObj(("errors" :> JObj(NameRequired))))
  /\ first("name") = "required"

\* C2: when the transport resolves a submission that no other submission
\* overlapped, then right after the promise has resolved busy is false,
\* successful is true, there are no errors, and the promise resolved with the
\* transport's response.
C2_SuccessPath ==
  (lastOp = "resolved" /\ ~done.overlapped) =>
    /\ busy = FALSE
    /\ successful = TRUE
    /\ errors = NoProps
    /\ Settled("resolved")
    /\ done.value.ok

C2_Witness ==
  /\ lastOp = "resolved"
  /\ ~done.overlapped
  /\ done.value = Response("response 204")
  /\ successful

\* C3: whatever the state before, a call of startProcessing() leaves busy
\* true, successful false and no errors, and a call of finishProcessing()
\* leaves busy false and successful true.
C3_FlagTransitions ==
  [][/\ lastOp' = "start" => (busy' = TRUE /\ successful' = FALSE /\ errors' = NoProps)
     /\ lastOp' = "finish" => (busy' = FALSE /\ successful' = TRUE)]_vars

\* finishProcessing() was called on a form with errors, and with a request
\* in flight.
C3_Witness ==
  /\ lastOp = "finish"
  /\ errors # NoProps
  /\ inflight # {}
  /\ successful

\* C4, as claimed: when the transport rejects with an error that carries no
\* response, the errors stay as they were, busy becomes false, successful is
\* false afterwards, and the promise rejects with the transport's own error.
C4_Original ==
  [][(lastOp' = "rejected" /\ ~done'.arrived.hasResponse) =>
       /\ errors' = errors
       /\ busy' = FALSE
       /\ successful' = FALSE
       /\ done'.outcome = "rejected"
       /\ done'.value = done'.arrived]_vars

\* C4, amended: when the transport rejects with an error that carries no
\* response, the errors and successful stay as they were, busy becomes false,
\* and the promise rejects with the transport's own error; successful is false
\* afterwards when no other submission overlapped this one.
C4_NoResponse ==
  [][(lastOp' = "rejected" /\ ~done'.arrived.hasResponse) =>
       /\ errors' = errors
       /\ busy' = FALSE
       /\ successful' = successful
       /\ ~done'.overlapped => successful' = FALSE
       /\ done'.outcome = "rejected"
       /\ done'.value = done'.arrived]_vars

\* A network error arrived on a form that had errors, and they are still there.
C4_Witness ==
  /\ lastOp = "rejected"
  /\ done.arrived = NetworkError
  /\ ~busy
  /\ has("name")

\* C10, as claimed: busy is true whenever a submission is in flight.
C10_Original == inflight # {} => busy = TRUE

\* C10, amended: busy is true whenever a submission is in flight that no
\* other submission has overlapped.
C10_BusyWhileInFlight ==
  \A r \in inflight : ~r.overlapped => busy = TRUE

\* One submission is in flight, not overlapped, after another step on the form.
C10_Witness ==
  /\ \E r \in inflight : ~r.overlapped
  /\ lastOp = "keydown"
  /\ busy

C6_Original == (lastOp = "new" /\ ret.on) => Deep(ret.m, heap) = lastD

\* C6, amended: new Form(D).data() has exactly the keys of D that are not
\* reserved names (busy, successful, errors, originalData), with the same
\* values.
C6_RoundTrip ==
  (lastOp = "new" /\ ret.on) =>
    /\ DOMAIN ret.m = (DOMAIN lastD) \ ignore
    /\ \A k \in DOMAIN ret.m : DeepVal(ret.m[k], heap) = lastD[k]

C6_Witness ==
  /\ lastOp = "new"
  /\ ret.on
  /\ DOMAIN lastD = {"a", "b", "busy"}
  /\ DOMAIN ret.m = {"a", "b"}

\* C7: changing the mapping data() returned, or a nested object reachable
\* from it, changes neither the fields of the form nor its baseline.
C7_Isolation ==
  [][lastOp' = "mutret" =>
       /\ Deep(fields', heap') = Deep(fields, heap)
       /\ Deep(originalData', heap') = Deep(originalData, heap)]_vars

NotStructured(b) == b.t \notin {"obj", "arr"}
HasField(b, name) == name \in DOMAIN b.m
DefaultError == ("error" :> JStr("Something went wrong. Please try again."))

\* C8, as claimed: the extracted mapping is the default message for a body
\* that is missing or no structured object; else a copy of the errors field
\* when the body has one; else the message when the body has one; else a copy
\* of the body.
C8_Original ==
  extracted.on =>
    extracted.m =
      IF NotStructured(body) THEN DefaultError
      ELSE IF HasField(body, "errors") THEN Spread(body.m["errors"])
      ELSE IF HasField(body, "message") THEN ("error" :> body.m["message"])
      ELSE Spread(body)

\* C8, amended: as claimed, with "has an errors field" and "has a message
\* field" read as "has one whose value is truthy": a field that is null or
\* the empty string counts as missing.
C8_ExtractOrder ==
  extracted.on =>
    extracted.m =
      IF NotStructured(body) THEN DefaultError
      ELSE IF HasField(body, "errors") /\ Truthy(body.m["errors"])
        THEN Spread(body.m["errors"])
      ELSE IF HasField(body, "message") /\ Truthy(body.m["message"])
        THEN ("error" :> body.m["message"])
      ELSE Spread(body)

\* A body with an errors field and a message field, both truthy: the errors win.
C8_Witness ==
  /\ extracted.on
  /\ HasField(body, "errors")
  /\ body.m["errors"] = JObj(TwoErrors)
  /\ HasField(body, "message")
  /\ Truthy(body.m["message"])
  /\ extracted.m = TwoErrors

\* C9: the payload of a submission is the bound fields at the call overlaid
\* with the caller's config values, the config's value winning for a key in
\* both; for a method that is GET in any case it is stored in params and data
\* stays as given, for any other method it is stored in data and params stays
\* as given.
C9_PayloadRouting ==
  [][lastOp' = "submit" =>
       LET given == sent'.given
           isGet == sent'.method \in {"get", "GET", "Get"}
           over == IF isGet THEN given.params ELSE given.data
           overM == IF over.on THEN over.m ELSE Empty
           bound == (DOMAIN fields) \ ignore
           payload == [k \in bound \cup DOMAIN overM |->
                         IF k \in DOMAIN overM THEN overM[k] ELSE fields[k]]
       IN  /\ sent'.on
           /\ IF isGet
                THEN sent'.params = Some(payload) /\ sent'.data = given.data
                ELSE sent'.data = Some(payload) /\ sent'.params = given.params]_vars

\* A GET in capitals with a config that has a, on a form that binds a and b.
C9_Witness ==
  /\ lastOp = "submit"
  /\ sent.method = "GET"
  /\ sent.given.params.on
  /\ ~sent.given.data.on
  /\ fields = ("a" :> N(0)) @@ ("b" :> N(0))
  /\ sent.params = Some(("a" :> N(1)) @@ ("q" :> N(1)) @@ ("b" :> N(0)))
  /\ ~sent.data.on

\* C11, as claimed: in every state reached by submit calls, transport
\* successes and failures, clear() and per-field error clearing, successful
\* true implies that there are no errors.
C11_Original == successful => errors = NoProps

\* C11, amended: a state in which successful is true and there are errors is
\* entered only by the completion of a submission that another submission
\* overlapped; on a form whose submissions never overlap, successful true
\* implies that there are no errors.
C11_SuccessfulWithoutErrors ==
  [][(successful' /\ errors' # NoProps) =>
       \/ successful /\ errors # NoProps
       \/ done'.on /\ done'.overlapped]_vars

\* A submission succeeded after an earlier one had failed with errors, and
\* no errors are left.
C11_Witness ==
  /\ lastOp = "resolved"
  /\ ~done.overlapped
  /\ inflight = {}
  /\ successful
  /\ errors = NoProps
  /\ done.value = Response("response 200")

\* C12, as claimed: a submit call that overlaps another leaves busy true,
\* successful false and no errors; and once all overlapping submissions have
\* completed, the state is the one the last response alone produces: after a
\* success, successful is true and there are no errors; after a failure with
\* a response, successful is false and the errors are those of that response.
C12_Original ==
  /\ (lastOp = "submit" /\ Cardinality(inflight) > 1) =>
        (busy /\ ~successful /\ errors = NoProps)
  /\ (lastOp = "resolved" /\ done.overlapped /\ inflight = {}) =>
        (~busy /\ successful /\ errors = NoProps)
  /\ (lastOp = "rejected" /\ done.overlapped /\ inflight = {}
         /\ done.arrived.hasResponse) =>
        (~busy /\ ~successful /\ errors = extractErrors(done.arrived.body))

\* C12, amended: a submit call that overlaps another leaves busy true,
\* successful false and no errors.  The completion of an overlapped
\* submission sets busy false, and beyond that a success sets successful
\* true and leaves the errors as the earlier response left them, while a
\* failure with a response sets the errors to those of that response and
\* leaves successful as the earlier response left it.
C12_LastResponse ==
  [][/\ (lastOp' = "submit" /\ Cardinality(inflight') > 1) =>
          (busy' /\ ~successful' /\ errors' = NoProps)
     /\ (lastOp' = "resolved" /\ done'.overlapped) =>
          (~busy' /\ successful' /\ errors' = errors)
     /\ (lastOp' = "rejected" /\ done'.overlapped /\ done'.arrived.hasResponse) =>
          /\ ~busy'
          /\ successful' = successful
          /\ errors' = extractErrors(done'.arrived.body)]_vars

\* Of two overlapping submissions the first failed with errors and the last
\* succeeded: successful is true and the errors of the first are still set.
C12_Witness ==
  /\ lastOp = "resolved"
  /\ done.overlapped
  /\ inflight = {}
  /\ ~busy
  /\ successful
  /\ errors = NameRequired

\* C13: onKeydown with target.name = X removes the entry of X from the errors
\* and no other: has(X) is false afterwards and every other field has the
\* errors it had; busy, successful, the fields and the baseline stay as they
\* were; when the target has no name the errors stay as they were.
C13_FieldClear ==
  [][\A X \in TargetNames :
       Keydown(X) =>
         /\ X # "" =>
               /\ X \notin DOMAIN errors'
               /\ DOMAIN errors' = (DOMAIN errors) \ {X}
               /\ \A f \in DOMAIN errors' : errors'[f] = errors[f]
         /\ X = "" => errors' = errors
         /\ busy' = busy
         /\ successful' = successful
         /\ fields' = fields
         /\ originalData' = originalData]_vars

\* Of the errors of name and email, the one of name was removed by a keydown.
C13_Witness ==
  /\ lastOp = "keydown"
  /\ ~has("name")
  /\ has("email")
  /\ errors["email"] = JArr(<<"taken", "invalid">>)

\* What update(D) does to the baseline and to the properties of the form:
\* the baseline has D's keys next to those it had, each key of D holds a copy
\* of D's value that shares no object with the form, the property of the form
\* of that name holds D's value, and the other baseline keys are as they were.
UpdateMerges ==
  lastOp' = "update" =>
    /\ DOMAIN originalData' = (DOMAIN originalData) \cup DOMAIN lastD'
    /\ \A k \in DOMAIN lastD' :
         /\ DeepVal(originalData'[k], heap') = lastD'[k]
         /\ IsRef(originalData'[k]) => originalData'[k].v \notin AddrsOf(fields')
         /\ IF k = "busy"
              THEN B(busy') = lastD'[k]
              ELSE k \in DOMAIN fields' /\ DeepVal(fields'[k], heap') = lastD'[k]
    /\ \A k \in (DOMAIN originalData) \ DOMAIN lastD' :
         /\ originalData'[k] = originalData[k]
         /\ DeepVal(originalData'[k], heap') = DeepVal(originalData[k], heap)

\* C14: after construction and any sequence of update, fill and reset,
\* keys() is the key set of the baseline; and each update(D) sets the
\* baseline of every key of D to a deep copy of D's value and the live field
\* to D's value, and leaves the other baseline keys as they were.
C14_KeySetsInSync ==
  /\ [](keys = DOMAIN originalData)
  /\ [][UpdateMerges]_vars

\* C15: fill(D) assigns to every bound key k the value D[k], or undefined
\* when D has no k; it binds no key, whatever keys D has; the baseline, busy,
\* successful and the errors stay as they were.
C15_FillBoundKeys ==
  [][\A D \in DataArgs :
       Fill(D) =>
         /\ keys' = keys
         /\ \A k \in keys' :
              DeepVal(data'[k], heap') = IF k \in DOMAIN D THEN D[k] ELSE U
         /\ originalData' = originalData
         /\ Deep(originalData', heap') = Deep(originalData, heap)
         /\ busy' = busy
         /\ successful' = successful
         /\ errors' = errors]_vars

\* A fill with a nested object for a and nothing for b, on a form that binds
\* a and b.
C15_Witness ==
  /\ lastOp = "fill"
  /\ keys = {"a", "b"}
  /\ IsRef(fields["a"])
  /\ fields["b"] = U
  /\ "b" \in DOMAIN originalData
  /\ originalData["b"] = N(0)

\* C16: reset() leaves every bound key bound; a key the baseline does not
\* have (one bound by an assignment, not by update) becomes undefined and is
\* still a key of data(); a key of the baseline becomes a copy of its
\* baseline value, which is another object than the baseline's.
C16_ResetAbsentKey ==
  [][lastOp' = "reset" =>
       /\ keys' = keys
       /\ DOMAIN data' = keys
       /\ \A k \in keys :
            IF k \in DOMAIN originalData
              THEN /\ DeepVal(data'[k], heap') = DeepVal(originalData[k], heap)
                   /\ IsRef(data'[k]) => data'[k].v \notin AddrsOf(originalData')
              ELSE data'[k] = U]_vars

\* reset() on a form whose key b was bound by an assignment and whose key a
\* has a nested object as its baseline.
C16_Witness ==
  /\ lastOp = "reset"
  /\ keys = {"a", "b"}
  /\ DOMAIN originalData = {"a"}
  /\ fields["b"] = U
  /\ IsRef(fields["a"])
  /\ fields["a"].v # originalData["a"].v

\* The promise of the request numbered i is pending.
Pending(i) == i \in InUse

\* A step settles a promise exactly when it is a callback of the transport,
\* which takes one request out of flight, or a submit whose route throws;
\* the promise resolves on a response and rejects on an error.
SettlesOnce ==
  /\ lastOp' \in {"resolved", "rejected"} =>
       /\ done'.on
       /\ Cardinality(inflight') = Cardinality(inflight) - 1
       /\ done'.outcome = (IF done'.arrived.ok THEN "resolved" ELSE "rejected")
       /\ done'.value = done'.arrived
  /\ lastOp' \notin {"resolved", "rejected", "threw"} => ~done'.on

\* C17: with a transport that completes every request, the promise of every
\* submission is settled in the end, once, resolved on a response and
\* rejected on an error; and when a submission has completed and none is in
\* flight, busy is false.
C17_SettlesAndReleases ==
  /\ \A i \in Slots : Pending(i) ~> ~Pending(i)
  /\ [][SettlesOnce]_vars
  /\ []((inflight = {} /\ (sent.on \/ done.on)) => busy = FALSE)

\* C18: construction, update, fill and reset with any argument, one with
\* reserved names among its keys included, leave busy, successful and the
\* errors as they were (after construction: false, false and none), and no
\* reserved name is ever a key of keys() or of data().
C18_ControlStateFrame ==
  /\ [](lastOp = "new" => (~busy /\ ~successful /\ errors = NoProps))
  /\ [][lastOp' \in {"update", "fill", "reset"} =>
          (busy' = busy /\ successful' = successful /\ errors' = errors)]_vars
  /\ [](keys \cap ignore = {} /\ (DOMAIN data) \cap ignore = {})

\* C19: the payload of every submission carries, for every bound key the
\* caller did not put into the config object before its first use, the value
\* the field has at the submit call; also when the caller passes the config
\* object of the last submit again, after a change of a field.  The callers
\* of this specification put nothing into their config objects.
C19_NoStalePayload ==
  [][lastOp' = "submit" =>
       LET payload == IF toLowerCase(sent'.method) = "get"
                        THEN sent'.params ELSE sent'.data
       IN  /\ payload.on
           /\ \A k \in keys : k \in DOMAIN payload.m /\ payload.m[k] = fields[k]]_vars

\* C20: on a form built from data without reserved names, under any
\* interleaving of submit calls, transport successes and failures,
\* startProcessing, finishProcessing, clear, fill, reset and per-field error
\* clearing, busy and successful are never true together.
C20_BusyExcludesSuccessful == ~(busy /\ successful)

\* A reset() on a form that is successful and not busy while a submission is
\* still in flight.
C20_Witness ==
  /\ lastOp = "reset"
  /\ inflight # {}
  /\ successful
  /\ ~busy

====
